---- MODULE Spec2Model ----
(***************************************************************************)
(* use-qs: a codec between query strings and nested values.                *)
(*                                                                         *)
(* The two entry points, stringify and parse, are modelled on JavaScript   *)
(* strings (TLA+ strings, read character by character with SubSeq) and on  *)
(* tagged values.  The library calls they rest on (lodash camelCase,       *)
(* kebabCase, snakeCase, set, reduce, isEmpty; JSON.parse, JSON.stringify; *)
(* encodeURIComponent, decodeURIComponent; Map and Set construction) are   *)
(* modelled by what they compute on the characters.                        *)
(***************************************************************************)
EXTENDS Integers, Sequences, FiniteSets, TLC

(***************************************************************************)
(* Characters and strings                                                  *)
(***************************************************************************)
Lowers == "abcdefghijklmnopqrstuvwxyz"
Uppers == "ABCDEFGHIJKLMNOPQRSTUVWXYZ"
Digits == "0123456789"
HexDigits == "0123456789ABCDEF"

\* the characters i..j of s (or the elements of a sequence), clipped to what s has
Slice(s, i, j) == SubSeq(s, IF i < 1 THEN 1 ELSE i, IF j > Len(s) THEN Len(s) ELSE j)

CharAt(s, i) == Slice(s, i, i)

CharSet(s) == {CharAt(s, i) : i \in 1..Len(s)}

LowerSet == CharSet(Lowers)
UpperSet == CharSet(Uppers)
DigitSet == CharSet(Digits)
AlnumSet == LowerSet \cup UpperSet \cup DigitSet

\* 1-based position of the one-character string c in s, 0 when absent
PosIn(s, c) ==
    IF \E i \in 1..Len(s) : CharAt(s, i) = c
    THEN CHOOSE i \in 1..Len(s) : CharAt(s, i) = c /\ \A j \in 1..(i - 1) : CharAt(s, j) # c
    ELSE 0

toLowerChar(c) == IF c \in UpperSet THEN CharAt(Lowers, PosIn(Uppers, c)) ELSE c

toUpperChar(c) == IF c \in LowerSet THEN CharAt(Uppers, PosIn(Lowers, c)) ELSE c

RECURSIVE toLowerCase(_)
toLowerCase(s) ==
    IF s = "" THEN "" ELSE toLowerChar(CharAt(s, 1)) \o toLowerCase(Slice(s, 2, Len(s)))

upperFirst(s) == IF s = "" THEN "" ELSE toUpperChar(CharAt(s, 1)) \o Slice(s, 2, Len(s))

startsWith(s, p) == Len(p) <= Len(s) /\ Slice(s, 1, Len(p)) = p

endsWith(s, p) == Len(p) <= Len(s) /\ Slice(s, Len(s) - Len(p) + 1, Len(s)) = p

\* first position >= from at which the non-empty string p occurs in s, 0 when none
IndexFrom(s, p, from) ==
    LET hits == {i \in from..(Len(s) - Len(p) + 1) : Slice(s, i, i + Len(p) - 1) = p}
    IN  IF hits = {} THEN 0 ELSE CHOOSE i \in hits : \A j \in hits : i <= j

includes(s, p) == p = "" \/ IndexFrom(s, p, 1) # 0

\* String.prototype.split with a one-character separator
RECURSIVE split(_, _)
split(s, sep) ==
    LET i == IndexFrom(s, sep, 1)
    IN  IF i = 0 THEN <<s>>
        ELSE <<Slice(s, 1, i - 1)>> \o split(Slice(s, i + 1, Len(s)), sep)

\* Array.prototype.join
RECURSIVE join(_, _)
join(parts, sep) ==
    IF Len(parts) = 0 THEN ""
    ELSE IF Len(parts) = 1 THEN parts[1]
    ELSE parts[1] \o sep \o join(Tail(parts), sep)

\* lodash flattenDeep of a sequence of sequences of strings (one level is all
\* the callers build)
RECURSIVE flatten(_)
flatten(ss) == IF Len(ss) = 0 THEN <<>> ELSE Head(ss) \o flatten(Tail(ss))

\* last index j >= i - 1 such that every character of s in i..j is in cls
RECURSIVE RunEnd(_, _, _)
RunEnd(s, i, cls) ==
    IF i <= Len(s) /\ CharAt(s, i) \in cls THEN RunEnd(s, i + 1, cls) ELSE i - 1

\* lodash trim(str, chars) and trimStart(str, chars) for one character
RECURSIVE trimStart(_, _)
trimStart(s, c) ==
    IF s # "" /\ CharAt(s, 1) = c THEN trimStart(Slice(s, 2, Len(s)), c) ELSE s

RECURSIVE trimEnd(_, _)
trimEnd(s, c) ==
    IF s # "" /\ CharAt(s, Len(s)) = c THEN trimEnd(Slice(s, 1, Len(s) - 1), c) ELSE s

trim(s, c) == trimEnd(trimStart(s, c), c)

\* String(n) of an integer
RECURSIVE NatToString(_)
NatToString(n) ==
    IF n < 10 THEN CharAt(Digits, n + 1)
    ELSE NatToString(n \div 10) \o CharAt(Digits, (n % 10) + 1)

IntToString(n) == IF n < 0 THEN "-" \o NatToString(0 - n) ELSE NatToString(n)

\* value of a non-empty string of decimal digits
RECURSIVE DigitsToNat(_)
DigitsToNat(s) ==
    IF Len(s) = 1 THEN PosIn(Digits, s) - 1
    ELSE 10 * DigitsToNat(Slice(s, 1, Len(s) - 1)) + (PosIn(Digits, CharAt(s, Len(s))) - 1)

(***************************************************************************)
(* lodash words, camelCase, kebabCase, snakeCase on ASCII strings          *)
(***************************************************************************)
\* reHasUnicodeWord:
\* /[a-z][A-Z]|[A-Z]{2}[a-z]|[0-9][a-zA-Z]|[a-zA-Z][0-9]|[^a-zA-Z0-9 ]/
hasUnicodeWord(s) ==
    \/ \E i \in 1..Len(s) : CharAt(s, i) \notin (AlnumSet \cup {" "})
    \/ \E i \in 1..(Len(s) - 1) :
          LET c == CharAt(s, i)
              d == CharAt(s, i + 1)
          IN  \/ c \in LowerSet /\ d \in UpperSet
              \/ c \in DigitSet /\ d \in LowerSet \cup UpperSet
              \/ c \in LowerSet \cup UpperSet /\ d \in DigitSet
              \/ /\ c \in UpperSet /\ d \in UpperSet
                 /\ i + 2 <= Len(s) /\ CharAt(s, i + 2) \in LowerSet

\* reAsciiWord: maximal runs of characters outside the ASCII separators
RECURSIVE asciiWords(_, _)
asciiWords(s, i) ==
    IF i > Len(s) THEN <<>>
    ELSE IF CharAt(s, i) \notin AlnumSet THEN asciiWords(s, i + 1)
    ELSE <<Slice(s, i, RunEnd(s, i, AlnumSet))>> \o asciiWords(s, RunEnd(s, i, AlnumSet) + 1)

\* rsOrdLower / rsOrdUpper after the digit run that ends at j: the ordinal
\* (1st, 2nd, 3rd, 4th) ends two letters on, anything else ends at j
ordinalEnd(s, j) ==
    IF \/ /\ Slice(s, j + 1, j + 2) =
                (CASE CharAt(s, j) = "1" -> "ST" [] CharAt(s, j) = "2" -> "ND"
                   [] CharAt(s, j) = "3" -> "RD" [] OTHER -> "TH")
             /\ CharAt(s, j + 3) \notin (UpperSet \cup DigitSet)
          \/ /\ Slice(s, j + 1, j + 2) =
                (CASE CharAt(s, j) = "1" -> "st" [] CharAt(s, j) = "2" -> "nd"
                   [] CharAt(s, j) = "3" -> "rd" [] OTHER -> "th")
             /\ CharAt(s, j + 3) \notin (LowerSet \cup DigitSet)
    THEN j + 2 ELSE j

\* an upper-case run that ends at k gives its last letter to the word that
\* follows when a lower-case letter comes next
upperEnd(s, k) == IF k < Len(s) /\ CharAt(s, k + 1) \in LowerSet THEN k - 1 ELSE k

\* reUnicodeWord, its alternatives in order, on ASCII input: the end of the
\* word that starts at i, i - 1 when none does
unicodeWordEnd(s, i) ==
    IF CharAt(s, i) \in LowerSet THEN RunEnd(s, i, LowerSet)
    ELSE IF CharAt(s, i) \in UpperSet
    THEN (IF i < Len(s) /\ CharAt(s, i + 1) \in LowerSet
          THEN RunEnd(s, i + 1, LowerSet)
          ELSE upperEnd(s, RunEnd(s, i, UpperSet)))
    ELSE IF CharAt(s, i) \in DigitSet THEN ordinalEnd(s, RunEnd(s, i, DigitSet))
    ELSE i - 1

RECURSIVE unicodeWords(_, _)
RECURSIVE unicodeWordsFrom(_, _, _)
unicodeWords(s, i) ==
    IF i > Len(s) THEN <<>> ELSE unicodeWordsFrom(s, i, unicodeWordEnd(s, i))

\* the word i..j, when there is one, and the words after it
unicodeWordsFrom(s, i, j) ==
    IF j < i THEN unicodeWords(s, i + 1) ELSE <<Slice(s, i, j)>> \o unicodeWords(s, j + 1)

\* createCompounder strips apostrophes before splitting into words
RECURSIVE stripApostrophes(_)
stripApostrophes(s) ==
    IF s = "" THEN ""
    ELSE (IF CharAt(s, 1) = "'" THEN "" ELSE CharAt(s, 1))
             \o stripApostrophes(Slice(s, 2, Len(s)))

words(s) == IF hasUnicodeWord(s) THEN unicodeWords(s, 1) ELSE asciiWords(s, 1)

RECURSIVE camelJoin(_, _)
camelJoin(ws, index) ==
    IF index > Len(ws) THEN ""
    ELSE (IF index = 1 THEN toLowerCase(ws[index])
          ELSE upperFirst(toLowerCase(ws[index]))) \o camelJoin(ws, index + 1)

RECURSIVE lowerAll(_)
lowerAll(ws) == IF Len(ws) = 0 THEN <<>> ELSE <<toLowerCase(Head(ws))>> \o lowerAll(Tail(ws))

camelCase(s) == camelJoin(words(stripApostrophes(s)), 1)

kebabCase(s) == join(lowerAll(words(stripApostrophes(s))), "-")

snakeCase(s) == join(lowerAll(words(stripApostrophes(s))), "_")

(***************************************************************************)
(* Values: one tagged record per JavaScript type the codec meets.  An      *)
(* object keeps its own enumerable properties as a sequence of <<key,      *)
(* value>> in enumeration order; arrays, Maps and Sets keep theirs beside  *)
(* their elements (lodash set may add a named property to any of them).    *)
(***************************************************************************)
Undefined == [t |-> "undefined"]
Null == [t |-> "null"]
\* an index of an array that was never assigned
Hole == [t |-> "hole"]
Str(s) == [t |-> "string", s |-> s]
Num(n) == [t |-> "number", n |-> n]
\* a number whose literal has a fraction or an exponent keeps the literal
NumLit(lit) == [t |-> "number", lit |-> lit]
Bool(b) == [t |-> "boolean", b |-> b]
\* a Date with its toISOString text; an invalid Date has none
DateOf(iso) == [t |-> "date", valid |-> TRUE, iso |-> iso]
InvalidDate == [t |-> "date", valid |-> FALSE, iso |-> ""]
Obj(e) == [t |-> "object", e |-> e]
Arr(a) == [t |-> "array", a |-> a, e |-> <<>>]
MapOf(m) == [t |-> "map", m |-> m, e |-> <<>>]
SetOf(el) == [t |-> "set", el |-> el, e |-> <<>>]

isNil(v) == v.t \in {"undefined", "null", "hole"}
isArray(v) == v.t = "array"
isDate(v) == v.t = "date"
isMap(v) == v.t = "map"
isSet(v) == v.t = "set"
isObject(v) == v.t \in {"object", "array", "date", "map", "set"}

\* reading an element of an array: a hole reads as undefined
Elem(x) == IF x = Hole THEN Undefined ELSE x

\* reIsUint, /^(?:0|[1-9]\d*)$/: the keys lodash isIndex accepts and the
\* property names JavaScript orders as integers
isIndex(k) ==
    /\ k # ""
    /\ \A i \in 1..Len(k) : CharAt(k, i) \in DigitSet
    /\ (Len(k) = 1 \/ CharAt(k, 1) # "0")

EntryIndex(e, k) ==
    IF \E i \in 1..Len(e) : e[i][1] = k THEN CHOOSE i \in 1..Len(e) : e[i][1] = k ELSE 0

HasOwn(e, k) == EntryIndex(e, k) # 0

GetOwn(e, k) == IF HasOwn(e, k) THEN e[EntryIndex(e, k)][2] ELSE Undefined

\* e[k] = v on own properties: an existing key keeps its place; a new integer
\* key goes among the integer keys in ascending order, ahead of every other
\* key; any other new key goes last
PutOwn(e, k, v) ==
    IF HasOwn(e, k) THEN [e EXCEPT ![EntryIndex(e, k)] = <<k, v>>]
    ELSE IF isIndex(k)
    THEN LET before == {i \in 1..Len(e) :
                          isIndex(e[i][1]) /\ DigitsToNat(e[i][1]) < DigitsToNat(k)}
             n == Cardinality(before)
         IN  Slice(e, 1, n) \o <<<<k, v>>>> \o Slice(e, n + 1, Len(e))
    ELSE Append(e, <<k, v>>)

\* array[index] = v, growing the array with holes
PutIndex(a, index, v) ==
    [i \in 1..(IF index + 1 > Len(a) THEN index + 1 ELSE Len(a)) |->
        IF i = index + 1 THEN v ELSE IF i <= Len(a) THEN a[i] ELSE Hole]

\* nested[key] for the containers lodash set walks through
GetProp(node, k) ==
    IF node.t = "array" /\ isIndex(k)
    THEN (IF DigitsToNat(k) < Len(node.a) THEN Elem(node.a[DigitsToNat(k) + 1]) ELSE Undefined)
    ELSE IF node.t = "date" THEN Undefined
    ELSE GetOwn(node.e, k)

\* nested[key] = v
SetProp(node, k, v) ==
    IF node.t = "array" /\ isIndex(k)
    THEN [node EXCEPT !.a = PutIndex(node.a, DigitsToNat(k), v)]
    ELSE [node EXCEPT !.e = PutOwn(node.e, k, v)]

(***************************************************************************)
(* Printable ASCII, for percent-escapes and \u escapes                     *)
(***************************************************************************)
\* the characters 0x20 .. 0x7E in code order; the grave accent (0x60) cannot
\* be written in a string of this language and a form feed holds its place
Ascii == " !\"#$%&'()*+,-./0123456789:;<=>?@ABCDEFGHIJKLMNOPQRSTUVWXYZ[\\]^_\fabcdefghijklmnopqrstuvwxyz{|}~"

CharCode(c) == PosIn(Ascii, c) + 31

HexValue(c) == PosIn(HexDigits, toUpperChar(c)) - 1

isHex(c) == c # "" /\ PosIn(HexDigits, toUpperChar(c)) # 0

\* the code the two hexadecimal digits at i and i + 1 of s write
HexPair(s, i) == 16 * HexValue(CharAt(s, i)) + HexValue(CharAt(s, i + 1))

\* the characters encodeURIComponent leaves as they are
UriUnreserved == AlnumSet \cup {"-", "_", ".", "!", "~", "*", "'", "(", ")"}

RECURSIVE encodeURIComponent(_)
encodeURIComponent(s) ==
    IF s = "" THEN ""
    ELSE (IF CharAt(s, 1) \in UriUnreserved THEN CharAt(s, 1)
          ELSE "%" \o CharAt(HexDigits, (CharCode(CharAt(s, 1)) \div 16) + 1)
                   \o CharAt(HexDigits, (CharCode(CharAt(s, 1)) % 16) + 1))
             \o encodeURIComponent(Slice(s, 2, Len(s)))

\* the URIError of a malformed escape
URIError == [ok |-> FALSE, s |-> ""]

\* decodeURIComponent: [ok, s].  Escapes of printable ASCII decode to their
\* character; every other escape (controls, and the bytes of multi-byte
\* sequences) is taken as malformed.
RECURSIVE decodeURIComponent(_)
decodeURIComponent(s) ==
    IF s = "" THEN [ok |-> TRUE, s |-> ""]
    ELSE IF CharAt(s, 1) # "%"
    THEN LET rest == decodeURIComponent(Slice(s, 2, Len(s)))
         IN  IF rest.ok THEN [ok |-> TRUE, s |-> CharAt(s, 1) \o rest.s] ELSE URIError
    ELSE IF Len(s) < 3 \/ ~isHex(CharAt(s, 2)) \/ ~isHex(CharAt(s, 3)) THEN URIError
    ELSE IF HexPair(s, 2) \notin 32..126 THEN URIError
    ELSE LET rest == decodeURIComponent(Slice(s, 4, Len(s)))
         IN  IF rest.ok THEN [ok |-> TRUE, s |-> CharAt(Ascii, HexPair(s, 2) - 31) \o rest.s]
             ELSE URIError

(***************************************************************************)
(* JSON.stringify                                                          *)
(***************************************************************************)
RECURSIVE QuoteChars(_)
QuoteChars(s) ==
    IF s = "" THEN ""
    ELSE LET c == CharAt(s, 1)
         IN  (IF c = "\"" THEN "\\\""
              ELSE IF c = "\\" THEN "\\\\"
              ELSE IF c = "\n" THEN "\\n"
              ELSE IF c = "\t" THEN "\\t"
              ELSE IF c = "\r" THEN "\\r"
              ELSE c) \o QuoteChars(Slice(s, 2, Len(s)))

Quote(s) == "\"" \o QuoteChars(s) \o "\""

\* [...map] and [...set]
SpreadMap(m) == Arr([i \in 1..Len(m) |-> Arr(<<m[i][1], m[i][2]>>)])

SpreadSet(el) == Arr(el)

RECURSIVE JSONstringify(_)
RECURSIVE JSONElements(_, _)
RECURSIVE JSONMembers(_, _, _)
\* SerializeJSONProperty: "" stands for undefined (no text is ever empty)
JSONstringify(v) ==
    CASE v.t = "string" -> Quote(v.s)
      [] v.t = "number" -> (IF "n" \in DOMAIN v THEN IntToString(v.n) ELSE v.lit)
      [] v.t = "boolean" -> (IF v.b THEN "true" ELSE "false")
      [] v.t = "null" -> "null"
      [] v.t = "date" -> (IF v.valid THEN Quote(v.iso) ELSE "null")
      [] v.t = "array" -> "[" \o JSONElements(v.a, 1) \o "]"
      [] v.t \in {"object", "map", "set"} -> "{" \o JSONMembers(v.e, 1, TRUE) \o "}"
      [] OTHER -> ""

JSONElements(a, i) ==
    IF i > Len(a) THEN ""
    ELSE LET x == JSONstringify(a[i])
         IN  (IF i > 1 THEN "," ELSE "") \o (IF x = "" THEN "null" ELSE x)
                 \o JSONElements(a, i + 1)

JSONMembers(e, i, first) ==
    IF i > Len(e) THEN ""
    ELSE LET x == JSONstringify(e[i][2])
         IN  IF x = "" THEN JSONMembers(e, i + 1, first)
             ELSE (IF first THEN "" ELSE ",") \o Quote(e[i][1]) \o ":" \o x
                      \o JSONMembers(e, i + 1, FALSE)

(***************************************************************************)
(* JSON.parse: a result is [ok, v, i], i the position after the value;     *)
(* ok = FALSE is the SyntaxError                                           *)
(***************************************************************************)
JSONFail == [ok |-> FALSE, v |-> Undefined, i |-> 0]

JSONWhitespace == {" ", "\t", "\n", "\r"}

RECURSIVE SkipWs(_, _)
SkipWs(s, i) ==
    IF i <= Len(s) /\ CharAt(s, i) \in JSONWhitespace THEN SkipWs(s, i + 1) ELSE i

\* a string literal read: [ok, s, i], i the position after the closing quote
JSONStringFail == [ok |-> FALSE, s |-> "", i |-> 0]

\* what the escape letter d stands for
JSONEscape(d) == IF d = "n" THEN "\n" ELSE IF d = "t" THEN "\t" ELSE IF d = "r" THEN "\r" ELSE d

\* the characters of a string literal from position i, after the opening
\* quote.  An escape naming a character outside printable ASCII is outside the
\* alphabet and is refused.
RECURSIVE JSONStringChars(_, _)
JSONStringChars(s, i) ==
    IF i > Len(s) THEN JSONStringFail
    ELSE IF CharAt(s, i) = "\"" THEN [ok |-> TRUE, s |-> "", i |-> i + 1]
    ELSE IF CharAt(s, i) \in {"\t", "\n", "\r"} THEN JSONStringFail
    ELSE IF CharAt(s, i) # "\\"
    THEN LET rest == JSONStringChars(s, i + 1)
         IN  IF rest.ok THEN [rest EXCEPT !.s = CharAt(s, i) \o rest.s] ELSE JSONStringFail
    ELSE IF CharAt(s, i + 1) \in {"\"", "\\", "/", "n", "t", "r"}
    THEN LET rest == JSONStringChars(s, i + 2)
         IN  IF rest.ok THEN [rest EXCEPT !.s = JSONEscape(CharAt(s, i + 1)) \o rest.s]
             ELSE JSONStringFail
    ELSE IF /\ CharAt(s, i + 1) = "u" /\ i + 5 <= Len(s)
            /\ \A k \in 2..5 : isHex(CharAt(s, i + k))
            /\ Slice(s, i + 2, i + 3) = "00"
            /\ HexPair(s, i + 4) \in 32..126
    THEN LET rest == JSONStringChars(s, i + 6)
         IN  IF rest.ok THEN [rest EXCEPT !.s = CharAt(Ascii, HexPair(s, i + 4) - 31) \o rest.s]
             ELSE JSONStringFail
    ELSE JSONStringFail

\* the characters a number is written with
NumberChars == DigitSet \cup {"-", "+", ".", "e", "E"}

AllDigits(t) == t # "" /\ \A i \in 1..Len(t) : CharAt(t, i) \in DigitSet

\* 0|[1-9]\d*
IsJSONInt(t) == AllDigits(t) /\ (Len(t) = 1 \/ CharAt(t, 1) # "0")

\* (\.\d+)?
IsJSONFrac(t) == t = "" \/ (CharAt(t, 1) = "." /\ AllDigits(Slice(t, 2, Len(t))))

\* ([eE][+-]?\d+)?
IsJSONExp(t) ==
    \/ t = ""
    \/ /\ CharAt(t, 1) \in {"e", "E"}
       /\ AllDigits(Slice(t, IF CharAt(t, 2) \in {"+", "-"} THEN 3 ELSE 2, Len(t)))

\* a number without its sign
Unsigned(t) == IF CharAt(t, 1) = "-" THEN Slice(t, 2, Len(t)) ELSE t

\* (0|[1-9]\d*)(\.\d+)?([eE][+-]?\d+)?
IsUnsignedNumber(u) ==
    \E i \in 1..Len(u) : \E j \in i..Len(u) :
        /\ IsJSONInt(Slice(u, 1, i))
        /\ IsJSONFrac(Slice(u, i + 1, j))
        /\ IsJSONExp(Slice(u, j + 1, Len(u)))

\* the value of a number literal
JSONNumberOf(lit) ==
    IF IsJSONInt(Unsigned(lit))
    THEN Num(IF CharAt(lit, 1) = "-" THEN 0 - DigitsToNat(Unsigned(lit)) ELSE DigitsToNat(lit))
    ELSE NumLit(lit)

\* the number at position i: the run of number characters from i has to be
\* one number, since none of them may follow a number
JSONNumber(s, i) ==
    LET e == RunEnd(s, i, NumberChars)
    IN  IF IsUnsignedNumber(Unsigned(Slice(s, i, e)))
        THEN [ok |-> TRUE, v |-> JSONNumberOf(Slice(s, i, e)), i |-> e + 1]
        ELSE JSONFail

RECURSIVE JSONValue(_, _)
RECURSIVE JSONValueAt(_, _)
RECURSIVE JSONArrayRest(_, _, _)
RECURSIVE JSONArrayNext(_, _, _)
RECURSIVE JSONObjectRest(_, _, _)
RECURSIVE JSONMember(_, _, _)
RECURSIVE JSONMemberValue(_, _, _, _)
\* the value that starts at or after position i0
JSONValue(s, i0) == JSONValueAt(s, SkipWs(s, i0))

\* the string value of a string literal read
JSONStringValue(r) == IF r.ok THEN [ok |-> TRUE, v |-> Str(r.s), i |-> r.i] ELSE JSONFail

\* the value that starts at position i
JSONValueAt(s, i) ==
    IF i > Len(s) THEN JSONFail
    ELSE IF CharAt(s, i) = "\"" THEN JSONStringValue(JSONStringChars(s, i + 1))
    ELSE IF CharAt(s, i) \in DigitSet \cup {"-"} THEN JSONNumber(s, i)
    ELSE IF Slice(s, i, i + 3) = "true" THEN [ok |-> TRUE, v |-> Bool(TRUE), i |-> i + 4]
    ELSE IF Slice(s, i, i + 4) = "false" THEN [ok |-> TRUE, v |-> Bool(FALSE), i |-> i + 5]
    ELSE IF Slice(s, i, i + 3) = "null" THEN [ok |-> TRUE, v |-> Null, i |-> i + 4]
    ELSE IF CharAt(s, i) = "["
    THEN (IF CharAt(s, SkipWs(s, i + 1)) = "]"
          THEN [ok |-> TRUE, v |-> Arr(<<>>), i |-> SkipWs(s, i + 1) + 1]
          ELSE JSONArrayRest(s, i + 1, <<>>))
    ELSE IF CharAt(s, i) = "{"
    THEN (IF CharAt(s, SkipWs(s, i + 1)) = "}"
          THEN [ok |-> TRUE, v |-> Obj(<<>>), i |-> SkipWs(s, i + 1) + 1]
          ELSE JSONObjectRest(s, i + 1, <<>>))
    ELSE JSONFail

\* the elements of an array from position i, those read so far in acc
JSONArrayRest(s, i, acc) == JSONArrayNext(s, acc, JSONValue(s, i))

\* the element r read, and what follows it
JSONArrayNext(s, acc, r) ==
    IF ~r.ok THEN JSONFail
    ELSE IF CharAt(s, SkipWs(s, r.i)) = "]"
    THEN [ok |-> TRUE, v |-> Arr(Append(acc, r.v)), i |-> SkipWs(s, r.i) + 1]
    ELSE IF CharAt(s, SkipWs(s, r.i)) = ","
    THEN JSONArrayRest(s, SkipWs(s, r.i) + 1, Append(acc, r.v))
    ELSE JSONFail

\* the members of an object from position i0, those read so far in acc
JSONObjectRest(s, i0, acc) ==
    JSONMember(s, acc, IF CharAt(s, SkipWs(s, i0)) = "\""
                       THEN JSONStringChars(s, SkipWs(s, i0) + 1)
                       ELSE JSONStringFail)

\* the key k read, the colon and the value after it
JSONMember(s, acc, k) ==
    IF ~k.ok \/ CharAt(s, SkipWs(s, k.i)) # ":" THEN JSONFail
    ELSE JSONMemberValue(s, acc, k.s, JSONValue(s, SkipWs(s, k.i) + 1))

\* the member key: r read, and what follows it
JSONMemberValue(s, acc, key, r) ==
    IF ~r.ok THEN JSONFail
    ELSE IF CharAt(s, SkipWs(s, r.i)) = "}"
    THEN [ok |-> TRUE, v |-> Obj(PutOwn(acc, key, r.v)), i |-> SkipWs(s, r.i) + 1]
    ELSE IF CharAt(s, SkipWs(s, r.i)) = ","
    THEN JSONObjectRest(s, SkipWs(s, r.i) + 1, PutOwn(acc, key, r.v))
    ELSE JSONFail

\* the text is one value and white space: [ok, v]
JSONWhole(text, r) ==
    IF r.ok /\ SkipWs(text, r.i) = Len(text) + 1 THEN [ok |-> TRUE, v |-> r.v]
    ELSE [ok |-> FALSE, v |-> Undefined]

\* JSON.parse(text): [ok, v]
JSONparse(text) == JSONWhole(text, JSONValue(text, 1))

(***************************************************************************)
(* new Map(iterable) and new Set(iterable) on a JSON value: [ok, v], ok =  *)
(* FALSE the TypeError of a value that is not iterable or of a Map entry   *)
(* that is not an object                                                   *)
(***************************************************************************)
isPrimitive(v) == ~isObject(v)

\* the values a string iterates: its characters
StringChars(s) == [i \in 1..Len(s) |-> Str(CharAt(s, i))]

\* SameValueZero on JSON values: primitives by value, objects never (each
\* parsed object is a fresh one)
RECURSIVE SetAddAll(_, _, _)
SetAddAll(items, i, acc) ==
    IF i > Len(items) THEN acc
    ELSE LET x == Elem(items[i])
         IN  IF isPrimitive(x) /\ \E j \in 1..Len(acc) : acc[j] = x
             THEN SetAddAll(items, i + 1, acc)
             ELSE SetAddAll(items, i + 1, Append(acc, x))

MapSet(m, k, v) ==
    IF isPrimitive(k) /\ \E j \in 1..Len(m) : m[j][1] = k
    THEN [m EXCEPT ![CHOOSE j \in 1..Len(m) : m[j][1] = k] = <<k, v>>]
    ELSE Append(m, <<k, v>>)

RECURSIVE MapSetAll(_, _, _)
MapSetAll(items, i, acc) ==
    IF i > Len(items) THEN acc
    ELSE MapSetAll(items, i + 1,
                   MapSet(acc, GetProp(Elem(items[i]), "0"), GetProp(Elem(items[i]), "1")))

newSet(v) ==
    CASE isNil(v) -> [ok |-> TRUE, v |-> SetOf(<<>>)]
      [] v.t = "array" -> [ok |-> TRUE, v |-> SetOf(SetAddAll(v.a, 1, <<>>))]
      [] v.t = "string" -> [ok |-> TRUE, v |-> SetOf(SetAddAll(StringChars(v.s), 1, <<>>))]
      [] OTHER -> [ok |-> FALSE, v |-> Undefined]

newMap(v) ==
    CASE isNil(v) -> [ok |-> TRUE, v |-> MapOf(<<>>)]
      [] v.t = "array" ->
            IF \A i \in 1..Len(v.a) : isObject(Elem(v.a[i]))
            THEN [ok |-> TRUE, v |-> MapOf(MapSetAll(v.a, 1, <<>>))]
            ELSE [ok |-> FALSE, v |-> Undefined]
      [] v.t = "string" ->
            IF v.s = "" THEN [ok |-> TRUE, v |-> MapOf(<<>>)]
            ELSE [ok |-> FALSE, v |-> Undefined]
      [] OTHER -> [ok |-> FALSE, v |-> Undefined]

(***************************************************************************)
(* QsOptions.  An option left out is "unset" ("" for case and prefix, which *)
(* the code tests for truthiness).  omitValues is [k |-> "unset"], a list   *)
(* [k |-> "list", l |-> values] or a named predicate [k |-> "fn", f |-> name]*)
(***************************************************************************)
NoOmit == [k |-> "unset"]
OmitList(l) == [k |-> "list", l |-> l]
OmitFn(f) == [k |-> "fn", f |-> f]

NoOptions ==
    [addQueryPrefix |-> "unset", case |-> "", restoreCase |-> "unset",
     omitValues |-> NoOmit, prefix |-> ""]

\* the predicates given as omitValues: the one of the test suite, the one of
\* the documentation, and one that omits nothing
CallOmitFn(f, value, key) ==
    CASE f = "keyIncludesName" -> includes(key, "name")
      [] f = "valueIsEmptyString" -> value = Str("")
      [] f = "never" -> FALSE

needsEncoding(value) == \E i \in 1..Len(value) : CharAt(value, i) \in {"&", "=", "#"}

\* decodeURIComponent(value) !== value, false when it throws
isEncoded(value) == decodeURIComponent(value) \notin {URIError, [ok |-> TRUE, s |-> value]}

caseOf(style, basePart) ==
    CASE style = "snake_case" -> snakeCase(basePart)
      [] style = "camelCase" -> camelCase(basePart)
      [] style = "kebab-case" -> kebabCase(basePart)
      [] OTHER -> basePart

\* one '.'-separated part of a key under a case style: the base before the
\* first '[' is converted, the rest is kept; a part with no base becomes ''
casePart(style, part) ==
    LET splitParts == split(part, "[")
        basePart == Head(splitParts)
        arrayParts == Tail(splitParts)
    IN  IF basePart # ""
        THEN caseOf(style, basePart)
                 \o (IF Len(arrayParts) > 0 THEN "[" \o join(arrayParts, "[") ELSE "")
        ELSE ""

caseParts(style, key) ==
    LET parts == split(key, ".")
    IN  join([i \in 1..Len(parts) |-> casePart(style, parts[i])], ".")

transformKey(key, options) ==
    IF options.case = "" THEN key ELSE caseParts(options.case, key)

\* a variant without the camelCase default: keys are restored only on request
restoreCaseOnRequest(options) ==
    IF options.restoreCase # "unset" THEN options.restoreCase ELSE "false"

\* options?.restoreCase ?? (options?.case ? 'camelCase' : false)
restoreCaseOf(options) ==
    IF options.restoreCase # "unset" THEN options.restoreCase
    ELSE IF options.case # "" THEN "camelCase" ELSE "false"

reverseTransformKey(key, options) ==
    IF restoreCaseOf(options) = "false" THEN key ELSE caseParts(restoreCaseOf(options), key)

addPrefix(key, options) == IF options.prefix = "" THEN key ELSE options.prefix \o key

\* a variant that leaves the prefix on the key
removePrefixNever(key, options) == key

\* a variant that removes the prefix as often as the key starts with it
RECURSIVE removePrefixEvery(_, _)
removePrefixEvery(key, options) ==
    IF options.prefix # "" /\ startsWith(key, options.prefix)
    THEN removePrefixEvery(Slice(key, Len(options.prefix) + 1, Len(key)), options)
    ELSE key

removePrefix(key, options) ==
    IF options.prefix = "" THEN key
    ELSE IF startsWith(key, options.prefix) THEN Slice(key, Len(options.prefix) + 1, Len(key))
    ELSE key

\* Array.prototype.includes: SameValueZero, so an object is never found
shouldOmitValue(value, key, options) ==
    CASE options.omitValues.k = "unset" ->
            \/ isNil(value)
            \/ value = Str("")
            \/ (isMap(value) /\ Len(value.m) = 0)
            \/ (isSet(value) /\ Len(value.el) = 0)
      [] options.omitValues.k = "fn" -> CallOmitFn(options.omitValues.f, value, key)
      [] OTHER ->
            /\ isPrimitive(value)
            /\ \E i \in 1..Len(options.omitValues.l) : options.omitValues.l[i] = Elem(value)

\* String(value)
RECURSIVE StringOf(_)
StringOf(v) ==
    CASE v.t = "string" -> v.s
      [] v.t = "number" -> (IF "n" \in DOMAIN v THEN IntToString(v.n) ELSE v.lit)
      [] v.t = "boolean" -> (IF v.b THEN "true" ELSE "false")
      [] v.t = "array" ->
            join([i \in 1..Len(v.a) |-> IF isNil(v.a[i]) THEN "" ELSE StringOf(v.a[i])], ",")
      [] OTHER -> v.t

\* lodash isEmpty
isEmpty(v) ==
    CASE v.t = "string" -> v.s = ""
      [] v.t = "array" -> Len(v.a) = 0
      [] v.t = "map" -> Len(v.m) = 0
      [] v.t = "set" -> Len(v.el) = 0
      [] v.t = "object" -> Len(v.e) = 0
      [] OTHER -> TRUE

(***************************************************************************)
(* stringify.  A result carries raised = TRUE when the call ends in an     *)
(* exception (Date.prototype.toISOString of an invalid Date is a           *)
(* RangeError; key.split of a number is a TypeError), and the calls made   *)
(* to shouldOmitValue as <<value, key>>, in order.                         *)
(***************************************************************************)
\* needsEncoding(stringValue) ? encodeURIComponent(stringValue) : stringValue
encodeIfNeeded(stringValue) ==
    IF needsEncoding(stringValue) THEN encodeURIComponent(stringValue) ELSE stringValue

\* [raised, s]
processValue(value) ==
    IF isNil(value) THEN [raised |-> FALSE, s |-> ""]
    ELSE IF isDate(value) /\ ~value.valid THEN [raised |-> TRUE, s |-> ""]
    ELSE [raised |-> FALSE,
          s |-> encodeIfNeeded(
                    CASE isDate(value) -> value.iso
                      [] isMap(value) -> "map(" \o JSONstringify(SpreadMap(value.m)) \o ")"
                      [] isSet(value) -> "set(" \o JSONstringify(SpreadSet(value.el)) \o ")"
                      [] isObject(value) /\ ~isArray(value) -> JSONstringify(value)
                      [] OTHER -> StringOf(value))]

NoPairs == [pairs |-> <<>>, calls |-> <<>>, raised |-> FALSE]

\* what one step adds to what the steps before it gave; nothing follows an
\* exception
Then(r1, r2) ==
    IF r1.raised THEN r1
    ELSE [pairs |-> r1.pairs \o r2.pairs, calls |-> r1.calls \o r2.calls, raised |-> r2.raised]

\* the (value, key) pairs lodash reduce visits: the elements of an array under
\* their indices (a hole read as undefined), the own properties of anything else
ReduceEntries(input) ==
    IF isArray(input)
    THEN [i \in 1..Len(input.a) |-> <<IntToString(i - 1), Elem(input.a[i])>>]
    ELSE IF isDate(input) THEN <<>>
    ELSE input.e

\* `${addPrefix(key, options)}=${processValue(value)}`, pv what processValue gave
LeafPair(key, pv, options) ==
    [pairs |-> IF pv.raised THEN <<>> ELSE <<addPrefix(key, options) \o "=" \o pv.s>>,
     calls |-> <<>>, raised |-> pv.raised]

\* one call of shouldOmitValue
OmitCall(value, keyPath) == [pairs |-> <<>>, calls |-> <<<<value, keyPath>>>>, raised |-> FALSE]

\* key.split of a number is a TypeError
Raise == [pairs |-> <<>>, calls |-> <<>>, raised |-> TRUE]

RECURSIVE buildKeyValuePairs(_, _, _)
RECURSIVE reduceEntries(_, _, _, _, _)
RECURSIVE buildEntry(_, _, _, _)
RECURSIVE buildArrayPairs(_, _, _, _)
RECURSIVE buildItem(_, _, _)
\* the reduce callback on a value under keyPath; numberKeyPath: keyPath is
\* an array index met with an empty prefix, a number and not a string
buildEntry(value, keyPath, numberKeyPath, options) ==
    IF shouldOmitValue(value, keyPath, options) THEN OmitCall(value, keyPath)
    ELSE IF isArray(value)
    THEN (IF isEmpty(value) THEN OmitCall(value, keyPath)
          ELSE Then(OmitCall(value, keyPath), buildArrayPairs(value.a, 1, keyPath, options)))
    ELSE IF isObject(value) /\ ~isDate(value) /\ ~isMap(value) /\ ~isSet(value)
    THEN (IF isEmpty(value) THEN OmitCall(value, keyPath)
          ELSE Then(OmitCall(value, keyPath), buildKeyValuePairs(value, keyPath, options)))
    ELSE IF numberKeyPath /\ options.case # "" THEN Then(OmitCall(value, keyPath), Raise)
    ELSE Then(OmitCall(value, keyPath),
              LeafPair(transformKey(keyPath, options), processValue(value), options))

\* the map callback on an item under arrayKey
buildItem(item, arrayKey, options) ==
    IF isObject(item) /\ ~isDate(item) THEN buildKeyValuePairs(item, arrayKey, options)
    ELSE LeafPair(arrayKey, processValue(item), options)

\* map(value, (item, index) => ...) from the element at position i on
buildArrayPairs(items, i, keyPath, options) ==
    IF i > Len(items) THEN NoPairs
    ELSE Then(buildItem(Elem(items[i]),
                        transformKey(keyPath \o "[" \o IntToString(i - 1) \o "]", options),
                        options),
              buildArrayPairs(items, i + 1, keyPath, options))

\* reduce(input, ...) from entry i on
reduceEntries(entries, i, prefix, numberKey, options) ==
    IF i > Len(entries) THEN NoPairs
    ELSE Then(buildEntry(entries[i][2],
                         IF prefix # "" THEN prefix \o "." \o entries[i][1] ELSE entries[i][1],
                         numberKey /\ prefix = "", options),
              reduceEntries(entries, i + 1, prefix, numberKey, options))

buildKeyValuePairs(input, prefix, options) ==
    reduceEntries(ReduceEntries(input), 1, prefix, isArray(input), options)

\* a variant that joins whatever pairs there are, none included
joinPairsUnchecked(built, options) ==
    [raised |-> built.raised,
     s |-> IF built.raised THEN ""
           ELSE (IF options.addQueryPrefix = "false" THEN "" ELSE "?") \o join(built.pairs, "&"),
     calls |-> built.calls]

\* size(pairs) ? `${(options?.addQueryPrefix ?? true) ? '?' : ''}${pairs.join('&')}` : ''
joinPairs(built, options) ==
    [raised |-> built.raised,
     s |-> IF built.raised \/ Len(built.pairs) = 0 THEN ""
           ELSE (IF options.addQueryPrefix = "false" THEN "" ELSE "?") \o join(built.pairs, "&"),
     calls |-> built.calls]

\* [raised, s, calls]: the string returned, unless raised
stringify(obj, options) ==
    IF isEmpty(obj) THEN [raised |-> FALSE, s |-> "", calls |-> <<>>]
    ELSE joinPairs(buildKeyValuePairs(obj, "", options), options)

(***************************************************************************)
(* parse                                                                   *)
(***************************************************************************)
\* segment.replace(/\[(\d+)\]/g, '.$1')
RECURSIVE replaceBrackets(_, _)
replaceBrackets(s, i) ==
    IF i > Len(s) THEN ""
    ELSE LET k == RunEnd(s, i + 1, DigitSet)
         IN  IF CharAt(s, i) = "[" /\ k >= i + 1 /\ CharAt(s, k + 1) = "]"
             THEN "." \o Slice(s, i + 1, k) \o replaceBrackets(s, k + 2)
             ELSE CharAt(s, i) \o replaceBrackets(s, i + 1)

\* the path of a key: its '.'-separated segments, each with its [digits]
\* groups turned into further elements
\* the map callback on one segment: a segment with a [digits] group is one
\* that the replacement changes
decodeSegment(segment) ==
    IF replaceBrackets(segment, 1) # segment THEN split(replaceBrackets(segment, 1), ".")
    ELSE <<segment>>

decodePath(transformedKey) ==
    LET segments == split(transformedKey, ".")
    IN  flatten([i \in 1..Len(segments) |-> decodeSegment(segments[i])])

\* the try block: a map(...) or set(...) wrapper, else JSON, else the string
\* new Map(...) and new Set(...) of what JSON.parse gave, j; an exception of
\* JSON.parse goes through
newMapOf(j) == IF j.ok THEN newMap(j.v) ELSE j

newSetOf(j) == IF j.ok THEN newSet(j.v) ELSE j

\* the catch block: the string is kept when the try block threw
orKeep(value, r) == IF r.ok THEN r.v ELSE Str(value)

decodeValue(value) ==
    IF startsWith(value, "map(") /\ endsWith(value, ")")
    THEN orKeep(value, newMapOf(JSONparse(Slice(value, 5, Len(value) - 1))))
    ELSE IF startsWith(value, "set(") /\ endsWith(value, ")")
    THEN orKeep(value, newSetOf(JSONparse(Slice(value, 5, Len(value) - 1))))
    ELSE orKeep(value, JSONparse(value))

\* lodash baseSet from element i of the path on: the keys it refuses end the
\* walk with what was assigned so far
RECURSIVE baseSet(_, _, _, _)
baseSet(nested, path, i, value) ==
    LET key == path[i]
        objValue == GetProp(nested, key)
        newValue == IF isObject(objValue) THEN objValue
                    ELSE IF isIndex(path[i + 1]) THEN Arr(<<>>) ELSE Obj(<<>>)
    IN  IF key \in {"__proto__", "constructor", "prototype"} THEN nested
        ELSE IF i = Len(path) THEN SetProp(nested, key, value)
        ELSE SetProp(nested, key, baseSet(newValue, path, i + 1, value))

\* a set that keeps what the first key of the path already holds
setUnlessHeld(object, path, value) ==
    IF GetProp(object, path[1]) # Undefined THEN object ELSE baseSet(object, path, 1, value)

set(object, path, value) == baseSet(object, path, 1, value)

\* first(param.split('='))
paramKey(param) == Head(split(param, "="))

\* the rest joined with '=' again, percent-decoded when that changes it
paramValue(param) ==
    LET rawValue == join(Tail(split(param, "=")), "=")
    IN  IF isEncoded(rawValue) THEN decodeURIComponent(rawValue).s ELSE rawValue

\* the path a key is stored under
paramPath(key, options) == decodePath(reverseTransformKey(removePrefix(key, options), options))

\* the reduce callback of parse on one '&'-separated parameter
parseParam(reduction, param, options) ==
    IF param = "" THEN reduction
    ELSE IF paramKey(param) = "" THEN reduction
    ELSE IF options.prefix # "" /\ ~startsWith(paramKey(param), options.prefix) THEN reduction
    ELSE set(reduction, paramPath(paramKey(param), options), decodeValue(paramValue(param)))

\* cleanStr.split('&')
parseParams(str) == split(trimStart(trim(str, " "), "?"), "&")

RECURSIVE reduceParams(_, _, _, _)
reduceParams(reduction, params, i, options) ==
    IF i > Len(params) THEN reduction
    ELSE reduceParams(parseParam(reduction, params[i], options), params, i + 1, options)

parse(str, options) ==
    IF str = "" THEN Obj(<<>>)
    ELSE reduceParams(Obj(<<>>), parseParams(str), 1, options)

(***************************************************************************)
(* The inputs the model runs on                                            *)
(***************************************************************************)
\* longest array among the inputs of stringify
MaxArrayLen == 2
\* most '&'-separated parameters in a string given to parse
MaxParams == 2

IsoDate == "2023-01-01T00:00:00.000Z"

Leaves ==
    {Null, Undefined, Str(""), Str("js"), Str("1"), Str("%41"), Str("a&b"), Num(7),
     Bool(TRUE), DateOf(IsoDate), InvalidDate, MapOf(<<>>),
     MapOf(<<<<Str("k"), Num(1)>>>>), SetOf(<<>>), SetOf(<<Str("v")>>)}

Elements ==
    {Null, Str("js"), Num(7), MapOf(<<<<Str("k"), Num(1)>>>>), Obj(<<>>),
     Obj(<<<<"firstName", Str("js")>>>>), Arr(<<Num(7)>>)}

Arrays == {Arr(a) : a \in UNION {[1..n -> Elements] : n \in 0..MaxArrayLen}}

InnerObjects ==
    {Obj(<<>>)} \cup {Obj(<<<<k, l>>>>) : k \in {"name", "lastName"},
                                           l \in {Str("js"), Null, Num(7)}}

Values == Leaves \cup Arrays \cup InnerObjects

\* keys that are not plain camelCase words
OddKeys == {"", "0", "a.b", "x&y", "user_list", "x1B"}

\* the objects given to stringify: one entry, then perhaps a second; and a few
\* under the odd keys
Inputs ==
    {Obj(<<>>)}
        \cup {Obj(<<<<"userList", v>>>>) : v \in Values}
        \cup {Obj(<<<<"userList", v>>, <<"b", w>>>>) : v \in Values, w \in {Str("js"), Null}}
        \cup {Obj(<<<<k, v>>>>) : k \in OddKeys,
                                   v \in {Str("js"), Arr(<<Num(7)>>), Obj(<<<<"0", Num(7)>>>>)}}

StringifyOptions ==
    {NoOptions,
     [NoOptions EXCEPT !.addQueryPrefix = "false"],
     [NoOptions EXCEPT !.prefix = "api-"],
     [NoOptions EXCEPT !.prefix = "p="],
     [NoOptions EXCEPT !.case = "kebab-case"],
     [NoOptions EXCEPT !.case = "snake_case"],
     [NoOptions EXCEPT !.case = "kebab-case", !.prefix = "api-"],
     [NoOptions EXCEPT !.case = "kebab-case", !.restoreCase = "false"],
     [NoOptions EXCEPT !.restoreCase = "snake_case"],
     [NoOptions EXCEPT !.omitValues = OmitFn("never")],
     [NoOptions EXCEPT !.omitValues = OmitFn("keyIncludesName"), !.case = "kebab-case"],
     [NoOptions EXCEPT !.omitValues = OmitList(<<Str("js"), Null>>)]}

RawParams ==
    {"a=1", "a.b=js", "a[1]=x", "api-a=2", "api-api-a=3", "api-first-name[0]=js", "api-=4",
     "other", "=5", "", "s=set(\"ab\")", "m=map(null)", "m=map([[\"k\",1]])", "m=map([1])",
     "s=set(", "u=%zz", "e=a%26b", "j={\"a\":[1]}", "j={\"a\"", "q=x=y",
     "a=js", "constructor=1", "[0]=x", "api-a.[1]=x"}

RawStrings ==
    {lead \o join(ps, "&") :
        lead \in {"", "?"}, ps \in UNION {[1..n -> RawParams] : n \in 0..MaxParams}}

ParseOptions ==
    {NoOptions,
     [NoOptions EXCEPT !.prefix = "api-"],
     [NoOptions EXCEPT !.case = "kebab-case", !.prefix = "api-"],
     [NoOptions EXCEPT !.case = "kebab-case", !.prefix = "api-", !.restoreCase = "false"]}

(***************************************************************************)
(* One call of stringify or of parse, a parse of what stringify returned,  *)
(* and a second stringify of what parse returned.  The reduce over the     *)
(* parameters of parse goes one parameter a step.                          *)
(***************************************************************************)
VARIABLES
    pc,         \* where the run is
    obj,        \* the object given to stringify (Undefined when the run parses a given string)
    options,    \* the options of every call of the run
    str,        \* the query string: what stringify returned, or what parse is given
    raised,     \* stringify ended in an exception
    calls,      \* the <<value, key>> stringify gave to shouldOmitValue, in order
    params,     \* the parameters parse has still to reduce
    reduction,  \* the accumulator of parse, its result in the end
    str2        \* what stringify returns on the result of parse

vars == <<pc, obj, options, str, raised, calls, params, reduction, str2>>

Init ==
    /\ \/ /\ pc = "start"
          /\ obj \in Inputs
          /\ options \in StringifyOptions
          /\ str = ""
       \/ /\ pc = "given"
          /\ obj = Undefined
          /\ options \in ParseOptions
          /\ str \in RawStrings
    /\ raised = FALSE
    /\ calls = <<>>
    /\ params = <<>>
    /\ reduction = Obj(<<>>)
    /\ str2 = ""

Stringify ==
    /\ pc = "start"
    /\ \E r \in {stringify(obj, options)} :
          /\ str' = r.s
          /\ raised' = r.raised
          /\ calls' = r.calls
          /\ pc' = IF r.raised THEN "raised" ELSE "stringified"
    /\ UNCHANGED <<obj, options, params, reduction, str2>>

\* parse up to its reduce: the empty string returns {} at once
ParseBegin ==
    /\ pc \in {"stringified", "given"}
    /\ reduction' = Obj(<<>>)
    /\ IF str = ""
       THEN pc' = "parsed" /\ params' = <<>>
       ELSE pc' = "reducing" /\ params' = parseParams(str)
    /\ UNCHANGED <<obj, options, str, raised, calls, str2>>

ParseParam ==
    /\ pc = "reducing"
    /\ params # <<>>
    /\ reduction' = parseParam(reduction, Head(params), options)
    /\ params' = Tail(params)
    /\ UNCHANGED <<pc, obj, options, str, raised, calls, str2>>

ParseReturn ==
    /\ pc = "reducing"
    /\ params = <<>>
    /\ pc' = "parsed"
    /\ UNCHANGED <<obj, options, str, raised, calls, params, reduction, str2>>

Restringify ==
    /\ pc = "parsed"
    /\ \E r \in {stringify(reduction, options)} :
          /\ str2' = r.s
          /\ pc' = IF r.raised THEN "raised" ELSE "done"
    /\ UNCHANGED <<obj, options, str, raised, calls, params, reduction>>

Next == Stringify \/ ParseBegin \/ ParseParam \/ ParseReturn \/ Restringify

Spec == Init /\ [][Next]_vars
(***************************************************************************)
(* Properties.  A run that starts from an object has obj # Undefined; its  *)
(* str is stringify(obj, options), its reduction at "parsed" is            *)
(* parse(str, options), its str2 at "done" is stringify(reduction,         *)
(* options).                                                               *)
(***************************************************************************)
KebabOptions == [NoOptions EXCEPT !.case = "kebab-case"]

ApiPrefixOptions == [NoOptions EXCEPT !.prefix = "api-"]

\* no character of k is in chars
NoneOf(k, chars) == \A i \in 1..Len(k) : CharAt(k, i) \notin chars

\* the keys of every object in v, at every depth
RECURSIVE KeysOf(_)
KeysOf(v) ==
    CASE v.t = "object" ->
            {v.e[i][1] : i \in 1..Len(v.e)} \cup UNION {KeysOf(v.e[i][2]) : i \in 1..Len(v.e)}
      [] v.t = "array" -> UNION {KeysOf(v.a[i]) : i \in 1..Len(v.a)}
      [] OTHER -> {}

\* the leaves the default omission names
Droppable(v) ==
    \/ isNil(v)
    \/ v = Str("")
    \/ (isMap(v) /\ v.m = <<>>)
    \/ (isSet(v) /\ v.el = <<>>)

\* what a round trip is said to give back for v: a Date as its ISO string, an
\* object without its entries that are droppable or have nothing left in them
RECURSIVE Expected(_)
Expected(v) ==
    CASE isDate(v) -> Str(v.iso)
      [] v.t = "array" -> Arr([i \in 1..Len(v.a) |-> Expected(v.a[i])])
      [] v.t = "object" ->
            LET kept == SelectSeq(v.e, LAMBDA x :
                            /\ ~Droppable(x[2])
                            /\ Expected(x[2]) \notin {Obj(<<>>), Arr(<<>>)})
            IN  Obj([i \in 1..Len(kept) |-> <<kept[i][1], Expected(kept[i][2])>>])
      [] OTHER -> v

\* every element of every array in v is one a round trip has to give back
RECURSIVE SolidArrays(_)
SolidArrays(v) ==
    CASE v.t = "array" ->
            \A i \in 1..Len(v.a) :
                /\ ~Droppable(v.a[i])
                /\ Expected(v.a[i]) \notin {Obj(<<>>), Arr(<<>>)}
                /\ SolidArrays(v.a[i])
      [] v.t = "object" -> \A i \in 1..Len(v.e) : SolidArrays(v.e[i][2])
      [] OTHER -> TRUE

\* C1: parse(stringify(v)) under default options deep-equals v, Dates turned
\* into their ISO strings and null, undefined and empty leaves dropped, for
\* every v whose keys hold no '.', '[' or ']' (read here for the values whose
\* arrays hold nothing to drop, where what dropping an element means does not
\* come into it)
C1_RoundTrip ==
    (/\ pc = "parsed" /\ obj # Undefined /\ options = NoOptions
     /\ \A k \in KeysOf(obj) : NoneOf(k, {".", "[", "]"})
     /\ SolidArrays(obj))
        => reduction = Expected(obj)

\* C2: stringify(parse(stringify(v, o), o), o) is the string stringify(v, o),
\* for every value v and every options o (read here for the default options,
\* where no option can be what changes a pair)
C2_FixedPoint == (pc = "done" /\ obj # Undefined /\ options = NoOptions) => str2 = str

\* a camelCase name: a key camelCase leaves as it is
IsCamelName(k) == k # "" /\ camelCase(k) = k

\* v comes back from parse(stringify(v)) under default options as it is
RoundTripsByDefault(v) ==
    /\ ~stringify(v, NoOptions).raised
    /\ parse(stringify(v, NoOptions).s, NoOptions) = v

\* C3: parse(stringify(v, {case: 'kebab-case'}), {case: 'kebab-case'})
\* deep-equals v, for every v whose keys are camelCase names at every depth
\* and that round-trips under default options; restoreCase left unset
C3_CaseRoundTrip ==
    (/\ pc = "parsed" /\ obj # Undefined /\ options = KebabOptions
     /\ \A k \in KeysOf(obj) : IsCamelName(k)
     /\ RoundTripsByDefault(obj))
        => reduction = obj

\* C3, its case: an object inside an array, its key and the key of the array
\* written in kebab-case and read back in camelCase
C3_Witness ==
    /\ pc = "parsed"
    /\ options = KebabOptions
    /\ obj = Obj(<<<<"userList", Arr(<<Obj(<<<<"firstName", Str("js")>>>>)>>)>>>>)
    /\ str = "?user-list[0].first-name=js"
    /\ reduction = obj

\* the run is one of stringify and parse under a prefix and nothing else
PrefixOnly == options.prefix # "" /\ options = [NoOptions EXCEPT !.prefix = options.prefix]

WrapperPayload(value) ==
    IF (startsWith(value, "map(") \/ startsWith(value, "set(")) /\ endsWith(value, ")")
    THEN Slice(value, 5, Len(value) - 1)
    ELSE ""

\* value is a wrapper whose payload is not a JSON array or, in map(...), not
\* one of arrays
BadWrapper(value) ==
    /\ (startsWith(value, "map(") \/ startsWith(value, "set("))
    /\ endsWith(value, ")")
    /\ \/ ~JSONparse(WrapperPayload(value)).ok
       \/ ~isArray(JSONparse(WrapperPayload(value)).v)
       \/ /\ startsWith(value, "map(")
          /\ \E i \in 1..Len(JSONparse(WrapperPayload(value)).v.a) :
                ~isArray(JSONparse(WrapperPayload(value)).v.a[i])

\* C5: a map(...) or set(...) wrapper whose payload is not a valid JSON array
\* of the required shape is stored as the raw decoded string
C5_BadWrapperKeptRaw ==
    [][(/\ pc = "reducing" /\ params # <<>>
        /\ parseParam(reduction, Head(params), options) # reduction
        /\ BadWrapper(paramValue(Head(params))))
          => reduction' = set(reduction, paramPath(paramKey(Head(params)), options),
                              Str(paramValue(Head(params))))]_vars

\* C6: stringify returns a string, for every input built from the values and
\* every options
C6_StringifyReturns == pc # "raised"

\* the string is empty, or the '?' (unless addQueryPrefix is false) and after
\* it at least one key=value pair
WellFormed(s, o) ==
    \/ s = ""
    \/ /\ o.addQueryPrefix = "false"
       /\ includes(s, "=")
    \/ /\ o.addQueryPrefix # "false"
       /\ CharAt(s, 1) = "?"
       /\ Len(s) > 1
       /\ includes(Slice(s, 2, Len(s)), "=")

\* an entry with nothing in it: an empty object, an empty array, an array of
\* empty objects
StructurallyEmpty(v) ==
    \/ v = Obj(<<>>)
    \/ (isArray(v) /\ \A i \in 1..Len(v.a) : v.a[i] = Obj(<<>>))

\* C7: what stringify returns is "" or the '?' (unless addQueryPrefix is
\* false) and at least one key=value pair, never a bare '?'; it is "" when
\* every entry is omitted or structurally empty
C7_NoBareQuestionMark ==
    /\ (obj # Undefined /\ pc \notin {"start", "raised"}) =>
          /\ WellFormed(str, options)
          /\ str # "?"
          /\ (\A i \in 1..Len(obj.e) :
                \/ shouldOmitValue(obj.e[i][2], obj.e[i][1], options)
                \/ StructurallyEmpty(obj.e[i][2])) => str = ""
    /\ pc = "done" => (WellFormed(str2, options) /\ str2 # "?")

\* C7, its case: an array that holds only empty objects, stringified with the
\* '?' asked for
C7_Witness ==
    /\ pc = "stringified"
    /\ options = NoOptions
    /\ obj = Obj(<<<<"userList", Arr(<<Obj(<<>>), Obj(<<>>)>>)>>>>)
    /\ str = ""

RECURSIVE Sum(_)
Sum(ns) == IF Len(ns) = 0 THEN 0 ELSE Head(ns) + Sum(Tail(ns))

\* the leaves of v that are not droppable: values of object keys and elements
\* of arrays, at every depth
RECURSIVE LeafCount(_)
LeafCount(v) ==
    CASE v.t = "object" -> Sum([i \in 1..Len(v.e) |-> LeafCount(v.e[i][2])])
      [] v.t = "array" -> Sum([i \in 1..Len(v.a) |-> LeafCount(v.a[i])])
      [] OTHER -> IF Droppable(v) THEN 0 ELSE 1

\* the pairs of a query string
PairCount(s) == IF s = "" THEN 0 ELSE Len(split(trimStart(s, "?"), "&"))

\* C8: with omitValues unset, a leaf that is null, undefined, '', an empty
\* Map or an empty Set yields no pair wherever it sits, and every other leaf
\* yields exactly one
C8_DefaultOmission ==
    (/\ pc = "stringified" /\ obj # Undefined /\ options = NoOptions
     /\ \A k \in KeysOf(obj) : NoneOf(k, {"&"}))
        => PairCount(str) = LeafCount(obj)

RECURSIVE PathsIn(_, _, _)
PathsIn(v, at, element) ==
    CASE v.t = "object" ->
            UNION {LET path == IF at = "" THEN v.e[i][1] ELSE at \o "." \o v.e[i][1]
                   IN  {path} \cup PathsIn(v.e[i][2], path, FALSE) : i \in 1..Len(v.e)}
      [] v.t = "array" ->
            UNION {LET path == IF element THEN at \o "." \o IntToString(i - 1)
                               ELSE at \o "[" \o IntToString(i - 1) \o "]"
                   IN  {path} \cup PathsIn(v.a[i], path, TRUE) : i \in 1..Len(v.a)}
      [] OTHER -> {}

\* C10: the key an omitValues function is given is the path built from the
\* keys of the input as they are, no segment of it case-converted, whatever
\* case and prefix are
C10_UntransformedKey ==
    (obj # Undefined /\ pc = "stringified" /\ options.omitValues.k = "fn")
        => \A i \in 1..Len(calls) : calls[i][2] \in PathsIn(obj, "", FALSE)

\* a parameter the reduce callback of parse stores: not empty, its key not
\* empty, and its key under the prefix when there is one
Stored(param, o) ==
    /\ param # ""
    /\ paramKey(param) # ""
    /\ (o.prefix = "" \/ startsWith(paramKey(param), o.prefix))

\* what node holds at the elements i.. of path; undefined where the walk
\* leaves the containers
RECURSIVE GetAt(_, _, _)
GetAt(node, path, i) ==
    IF i > Len(path) THEN node
    ELSE IF ~isObject(node) THEN Undefined
    ELSE GetAt(GetProp(node, path[i]), path, i + 1)

isScalar(v) == v.t \in {"string", "number", "boolean", "null"}

\* the keys lodash set does not write
RefusedKeys == {"__proto__", "constructor", "prototype"}

\* a container made for the elements i.. of path that holds nothing but value
\* at them: an array with holes below an index, an object with one entry
\* for any other element
RECURSIVE Holding(_, _, _)
Holding(path, i, value) ==
    IF i > Len(path) THEN value
    ELSE IF isIndex(path[i])
    THEN Arr([n \in 1..(DigitsToNat(path[i]) + 1) |->
                IF n = DigitsToNat(path[i]) + 1 THEN Holding(path, i + 1, value) ELSE Hole])
    ELSE Obj(<<<<path[i], Holding(path, i + 1, value)>>>>)

\* after is before with value written at path: value is what after holds at
\* path, and where before held a scalar on the way after holds a new
\* container with nothing but the value
Overwrites(before, after, path, value) ==
    /\ after.t = "object"
    /\ GetAt(after, path, 1) = value
    /\ \A n \in 1..(Len(path) - 1) :
          isScalar(GetAt(before, SubSeq(path, 1, n), 1))
              => GetAt(after, SubSeq(path, 1, n), 1) = Holding(path, n + 1, value)

NotRefused(path) == \A i \in 1..Len(path) : path[i] \notin RefusedKeys

C11_SamePathSeen ==
    /\ pc = "parsed"
    /\ options = NoOptions
    /\ str = "a=1&a=js"
    /\ reduction = Obj(<<<<"a", Str("js")>>>>)

\* every element of path after the first is owned by a container of the kind
\* it asks for: an array for an index, an object for any other element (the
\* first element is owned by the accumulator, an object from the start)
KindsFollow(after, path) ==
    \A n \in 2..Len(path) :
        GetAt(after, SubSeq(path, 1, n - 1), 1).t
            = (IF isIndex(path[n]) THEN "array" ELSE "object")

\* C12: after parse has stored a parameter, along its path the container that
\* owns an element which is a non-negative integer is an array and the
\* container that owns any other element is an object, a node of the other
\* kind found there having been replaced
C12_ContainerKind ==
    [][(/\ pc = "reducing" /\ params # <<>> /\ Stored(Head(params), options)
        /\ NotRefused(paramPath(paramKey(Head(params)), options))) =>
          KindsFollow(reduction', paramPath(paramKey(Head(params)), options))]_vars

\* s from i on is nothing but [digits] groups
RECURSIVE OnlyGroups(_, _)
OnlyGroups(s, i) ==
    \/ i > Len(s)
    \/ /\ CharAt(s, i) = "["
       /\ RunEnd(s, i + 1, DigitSet) >= i + 1
       /\ CharAt(s, RunEnd(s, i + 1, DigitSet) + 1) = "]"
       /\ OnlyGroups(s, RunEnd(s, i + 1, DigitSet) + 2)

\* a '.'-separated segment of a key that has bracket groups and no base
BaseLess(segment) == segment # "" /\ OnlyGroups(segment, 1)

\* part is in path, its elements next to each other and in order
Within(part, path) ==
    \E off \in 0..(Len(path) - Len(part)) : SubSeq(path, off + 1, off + Len(part)) = part

\* the path keeps '' and the indices of every base-less segment of the key
KeepsEmptyBase(segments, path) ==
    \A j \in 1..Len(segments) :
        BaseLess(segments[j]) => Within(decodeSegment(segments[j]), path)

\* C13: for a key with a segment that is only bracket groups, the path parse
\* stores the value under has the empty string followed by each index of the
\* segment, under every options
C13_EmptyBaseKept ==
    [][(pc = "reducing" /\ params # <<>> /\ Stored(Head(params), options)) =>
          KeepsEmptyBase(split(removePrefix(paramKey(Head(params)), options), "."),
                         paramPath(paramKey(Head(params)), options))]_vars

\* without case and restoreCase the element is kept: '[0]' is stored under
\* '' and 0
C13_EmptyBaseSeen ==
    /\ pc = "parsed"
    /\ options = NoOptions
    /\ str = "[0]=x"
    /\ reduction = Obj(<<<<"", Arr(<<Str("x")>>)>>>>)

\* the key paths of what v holds in the order of the traversal, written as
\* the grammar has them: the first key as it is, a further key after a '.',
\* the index of an element of any array as '[n]' right after what precedes
RECURSIVE GrammarPaths(_, _)
GrammarPaths(v, at) ==
    CASE v.t = "object" ->
            flatten([i \in 1..Len(v.e) |->
                LET path == IF at = "" THEN v.e[i][1] ELSE at \o "." \o v.e[i][1]
                IN  <<path>> \o GrammarPaths(v.e[i][2], path)])
      [] v.t = "array" ->
            flatten([i \in 1..Len(v.a) |->
                LET path == at \o "[" \o IntToString(i - 1) \o "]"
                IN  <<path>> \o GrammarPaths(v.a[i], path)])
      [] OTHER -> <<>>

\* a from i on is b from j on with some of its elements left out
RECURSIVE IsSubseq(_, _, _, _)
IsSubseq(a, b, i, j) ==
    IF i > Len(a) THEN TRUE
    ELSE IF j > Len(b) THEN FALSE
    ELSE IF a[i] = b[j] THEN IsSubseq(a, b, i + 1, j + 1)
    ELSE IsSubseq(a, b, i, j + 1)

\* the pairs of a query string that is not empty
PairsOf(s) == split(trimStart(s, "?"), "&")

KeysOfPairs(ps) == [i \in 1..Len(ps) |-> paramKey(ps[i])]

\* C14: without case and prefix, the keys stringify emits are key paths of
\* the input written by the grammar, every array index as '[n]' with no dot
\* before it also in an array that is an element of an array, and they come
\* in the order of the traversal
C14_KeyGrammar ==
    (/\ pc = "stringified" /\ obj # Undefined /\ str # ""
     /\ options.case = "" /\ options.prefix = ""
     /\ \A k \in KeysOf(obj) : NoneOf(k, {"&", "="}))
        => IsSubseq(KeysOfPairs(PairsOf(str)), GrammarPaths(obj, ""), 1, 1)

\* an array in an object, and a second key after it: the indices in
\* brackets, the pairs in the order of the input
C14_ArraySeen ==
    /\ pc = "stringified"
    /\ options = NoOptions
    /\ obj = Obj(<<<<"userList", Arr(<<Str("js"), Num(7)>>)>>, <<"b", Str("js")>>>>)
    /\ str = "?userList[0]=js&userList[1]=7&b=js"

\* how many times m is in v, as the value of a key or an element of an
\* array, at every depth outside Maps and Sets
RECURSIVE Occurrences(_, _)
Occurrences(v, m) ==
    IF v = m THEN 1
    ELSE CASE v.t = "object" -> Sum([i \in 1..Len(v.e) |-> Occurrences(v.e[i][2], m)])
           [] v.t = "array" -> Sum([i \in 1..Len(v.a) |-> Occurrences(v.a[i], m)])
           [] OTHER -> 0

\* how many of the pairs have text after their first '='
ValueCount(ps, text) ==
    Cardinality({i \in 1..Len(ps) : join(Tail(split(ps[i], "=")), "=") = text})

\* the Maps and Sets of the inputs that hold something
FullMapsAndSets ==
    {x \in Leaves \cup Elements : (isMap(x) /\ x.m # <<>>) \/ (isSet(x) /\ x.el # <<>>)}

\* C15: under default options every Map or Set that holds something yields
\* exactly one pair, the value of which is its map(...) or set(...) text,
\* as the value of a key and as an element of an array alike
C15_MapSetLeaves ==
    (/\ pc = "stringified" /\ obj # Undefined /\ options = NoOptions
     /\ \A k \in KeysOf(obj) : NoneOf(k, {"&", "="}))
        => \A m \in FullMapsAndSets :
              ValueCount(PairsOf(str), processValue(m).s) = Occurrences(obj, m)

\* a Map as the value of a key is one pair
C15_MapValueSeen ==
    /\ pc = "stringified"
    /\ options = NoOptions
    /\ obj = Obj(<<<<"userList", MapOf(<<<<Str("k"), Num(1)>>>>)>>>>)
    /\ str = "?userList=map([[\"k\",1]])"
====
